---------------------------- MODULE Spec2Model ----------------------------
(***************************************************************************)
(* Model of frontends/rust/rust_function_analyser/src/call_tree.rs:        *)
(* discovery of fuzzing harnesses, the walk of the fuzz_target! macro      *)
(* argument, name resolution against the function catalog, and the         *)
(* rendering of one call tree file per harness.                            *)
(*                                                                         *)
(* Strings are sequences of one-character strings, so that ends_with,      *)
(* split("::"), rfind("::"), replace and parse act on characters as the    *)
(* Rust code does.                                                         *)
(***************************************************************************)
EXTENDS Integers, Sequences, FiniteSets, TLC

VARIABLES
    function_map,      \* HashMap<String, &FunctionInfo>: name -> [return_type, callsites]
    function_name,     \* find_function: the candidate name
    found,             \* find_function: the key of the returned record, or NoFunction
    items,             \* the observations given to post_process_called_functions or
                       \* collected by the visitor for extract_called_functions
    processed,         \* the list returned for items
    syntax,            \* the items of a parsed harness file
    visitor,           \* FuzzTargetVisitor: [called, types]
    source_dir,        \* the files under source_dir: [path, trigger, parses, syntax]
    fuzzing_files,     \* generate_call_trees: the harnesses found
    next_file,         \* index of the harness the loop over fuzzing_files is at
    disk,              \* the output files: name -> [root, lines]
    harness_map,       \* fuzz_file -> the FunctionInfo synthesized for it
    called_functions,  \* the observations of the current harness
    next_call,         \* index of the next observation to render
    visited,           \* HashSet<String> of the current harness
    stack,             \* the active calls of build_call_tree, outermost first
    expansions,        \* how often each function's callsites were entered for the
                       \* current harness (history, not program state)
    pc                 \* position of the operation under check

findVars == <<function_name, found>>
obsVars == <<items, processed>>
walkVars == <<syntax, visitor>>
genVars == <<source_dir, fuzzing_files, next_file, disk, harness_map,
             called_functions, next_call, visited, stack, expansions>>
vars == <<function_map, findVars, obsVars, walkVars, genVars, pc>>

(***************************************************************************)
(* Bounds of the model.                                                    *)
(***************************************************************************)
\* find_function: segments of a candidate name, keys of the catalog
MaxSegs == 3
MaxKeys == 2
\* post_process / extract: observations in a list
MaxItems == 4
\* the walk: statements of a block
MaxStmts == 2
\* the call tree: call edges of the catalog, top-level calls of a harness,
\* nested calls of build_call_tree, files under source_dir
MaxEdges == 2
MaxCalls == 2
MaxStack == 4
MaxFiles == 3

(***************************************************************************)
(* Strings.                                                                *)
(***************************************************************************)
\* str::ends_with
ends_with(s, suffix) ==
    /\ Len(suffix) <= Len(s)
    /\ SubSeq(s, Len(s) - Len(suffix) + 1, Len(s)) = suffix

\* a "::" starts at (1-based) position p of s
ColonsAt(s, p) == p + 1 <= Len(s) /\ s[p] = ":" /\ s[p + 1] = ":"

\* str::split("::"): the matches are taken left to right and do not overlap
RECURSIVE split_from(_, _, _)
split_from(s, start, p) ==
    IF p > Len(s) THEN <<SubSeq(s, start, Len(s))>>
    ELSE IF ColonsAt(s, p)
         THEN <<SubSeq(s, start, p - 1)>> \o split_from(s, p + 2, p + 2)
         ELSE split_from(s, start, p + 1)

split(s) == split_from(s, 1, 1)

\* [&str]::join("::")
RECURSIVE join(_)
join(segments) ==
    IF Len(segments) = 0 THEN <<>>
    ELSE IF Len(segments) = 1 THEN segments[1]
    ELSE segments[1] \o <<":", ":">> \o join(Tail(segments))

(***************************************************************************)
(* find_function                                                           *)
(***************************************************************************)
\* Option::None of find_function; no name is this sequence
NoFunction == <<"None">>

\* the segment loop run from the shortest suffix to the longest
SegmentLoopShortestFirst(segments, i, fmap) ==
    LET hits == {j \in i..(Len(segments) - 1) :
                    join(SubSeq(segments, j + 1, Len(segments))) \in DOMAIN fmap}
    IN  IF hits = {} THEN NoFunction
        ELSE join(SubSeq(segments, (CHOOSE j \in hits : \A k \in hits : k <= j) + 1,
                         Len(segments)))

\* the loop `for i in 0..segments.len()` from index i on (i is 0-based)
RECURSIVE SegmentLoop(_, _, _)
SegmentLoop(segments, i, fmap) ==
    IF i >= Len(segments) THEN NoFunction
    ELSE LET partial_name == join(SubSeq(segments, i + 1, Len(segments)))
         IN  IF partial_name \in DOMAIN fmap THEN partial_name
             ELSE SegmentLoop(segments, i + 1, fmap)

\* the keys `function_map.iter().find(|(key, _)| key.ends_with(function_name))`
\* can return: the iteration order of a HashMap is unspecified
SuffixMatches(name, fmap) == {key \in DOMAIN fmap : ends_with(key, name)}

\* The set of keys find_function can return for the name (NoFunction: None).
find_function(name, fmap) ==
    IF name \in DOMAIN fmap THEN {name}
    ELSE IF SuffixMatches(name, fmap) # {} THEN SuffixMatches(name, fmap)
    ELSE {SegmentLoop(split(name), 0, fmap)}


(***************************************************************************)
(* post_process_called_functions and extract_called_functions              *)
(***************************************************************************)
\* str::find("::") in the place of rfind: the first "::"
FindFirst(s) ==
    LET hits == {p \in 1..Len(s) : ColonsAt(s, p)}
    IN  IF hits = {} THEN 0 ELSE CHOOSE p \in hits : \A q \in hits : p <= q

\* str::rfind("::"): the byte offset of the last "::", as Some(pos) = pos + 1
\* (1-based position) and None = 0
rfind(s) ==
    LET hits == {p \in 1..Len(s) : ColonsAt(s, p)}
    IN  IF hits = {} THEN 0 ELSE CHOOSE p \in hits : \A q \in hits : q <= p

\* Option::None of stored_value; no string is this sequence
NoStored == <<"None">>

\* the loop of post_process_called_functions over items[i..], with stored_value
RECURSIVE post_process_loop(_, _, _)
post_process_loop(its, i, stored_value) ==
    IF i > Len(its) THEN <<>>
    ELSE LET string_value == its[i][1]
             usize_value == its[i][2]
             pos == rfind(string_value)
         IN  IF pos # 0
             THEN <<(<<string_value, usize_value>>)>>
                  \o post_process_loop(its, i + 1, SubSeq(string_value, 1, pos - 1))
             ELSE IF stored_value # NoStored
             THEN <<(<<stored_value \o <<":", ":">> \o string_value, usize_value>>)>>
                  \o post_process_loop(its, i + 1, stored_value)
             ELSE <<(<<string_value, usize_value>>)>>
                  \o post_process_loop(its, i + 1, stored_value)

post_process_called_functions(its) == post_process_loop(its, 1, NoStored)

\* `let set: HashSet<_> = visitor.called_functions.into_iter().collect()`
CollectSet(called) == {called[i] : i \in 1..Len(called)}

\* `set.into_iter().collect()` then the stable `sort_by_key(|item| item.1)`:
\* the set is iterated in an unspecified order, so every arrangement of the set
\* in ascending line order can be the result
SortedByLine(set) ==
    LET n == Cardinality(set)
    IN  {v \in [1..n -> set] :
            /\ \A i, j \in 1..n : i # j => v[i] # v[j]
            /\ \A i, j \in 1..n : i < j => v[i][2] <= v[j][2]}

\* the lists extract_called_functions can return for the observations the
\* visitor collected
ExtractResults(called) ==
    {post_process_called_functions(v) : v \in SortedByLine(CollectSet(called))}


(***************************************************************************)
(* The syntax tree of a harness file (syn).  Every node is a record        *)
(*   [kind, path, line, kids]                                              *)
(* path: the identifiers of a path expression, of a macro's path, or the   *)
(* one identifier of a method or of a `let` pattern; line: the line of the *)
(* call target or of the method token; kids: the children, in source order.*)
(***************************************************************************)
Node(kind, path, line, kids) == [kind |-> kind, path |-> path, line |-> line, kids |-> kids]

ExprPath(path) == Node("Path", path, 0, <<>>)
ExprLit == Node("Lit", <<>>, 0, <<>>)
\* ExprCall: kids[1] is node.func, the rest are node.args
ExprCall(func, args) == Node("Call", <<>>, 0, <<func>> \o args)
\* a call whose func is the path, on the given line
CallPath(path, line, args) == ExprCall(Node("Path", path, line, <<>>), args)
\* ExprMethodCall: kids[1] is node.receiver, the rest are node.args
ExprMethodCall(receiver, method, line, args) == Node("MethodCall", <<method>>, line, <<receiver>> \o args)
\* ExprBlock: kids are block.stmts
ExprBlock(stmts) == Node("Block", <<>>, 0, stmts)
\* ExprIf: kids are cond, then_branch and, when present, the else branch
ExprIf(cond, then_branch) == Node("If", <<>>, 0, <<cond, then_branch>>)
ExprIfElse(cond, then_branch, else_branch) == Node("If", <<>>, 0, <<cond, then_branch, else_branch>>)
\* ExprWhile: kids are cond, body;  ExprForLoop: kids are expr, body
ExprWhile(cond, body) == Node("While", <<>>, 0, <<cond, body>>)
ExprForLoop(expr, body) == Node("ForLoop", <<>>, 0, <<expr, body>>)
\* ExprMatch: kids[1] is expr, the rest are the arms' bodies
ExprMatch(expr, arms) == Node("Match", <<>>, 0, <<expr>> \o arms)
ExprClosure(body) == Node("Closure", <<>>, 0, <<body>>)
\* Await, Try, Return, Assign, Unary, Binary, Field, Index, Tuple, Array,
\* Struct, Paren, Repeat, Group: kids are the operand expressions
ExprOperands(operands) == Node("Operands", <<>>, 0, operands)
\* ExprMacro and Macro: kids is <<body>> when parse_body::<Expr>() is Ok and
\* <<>> when it is Err
ExprMacro(path, body) == Node("Macro", path, 0, body)
\* expression kinds left to syn::visit::visit_expr: `loop` (kids: body) and
\* a reference `&e` (kids: the expression)
ExprLoop(body) == Node("Loop", <<>>, 0, <<body>>)
ExprReference(expr) == Node("Reference", <<>>, 0, <<expr>>)
\* Stmt::Local: path is <<ident>> for Pat::Ident and <<>> for another
\* pattern; kids is <<init.expr>> or <<>>
StmtLocal(pat, init) == Node("Local", pat, 0, init)
StmtExpr(expr) == Node("StmtExpr", <<>>, 0, <<expr>>)
StmtMacro(path, body) == Node("StmtMacro", path, 0, body)
\* Item::Fn: kids is <<block>>;  Item::Macro: as Macro
ItemFn(block) == Node("ItemFn", <<>>, 0, <<block>>)
ItemMacro(path, body) == Node("ItemMacro", path, 0, body)

\* the identifier fuzz_target
FuzzTarget == <<"fuzz_target">>

(***************************************************************************)
(* FuzzTargetVisitor.  A visitor state is [called, types]:                 *)
(* called_functions and variable_types.  The catalog look-up of            *)
(* lookup_function_return_type iterates a HashMap, so an inference can     *)
(* have several outcomes: every visit_ operator maps a set of possible     *)
(* visitor states to the set of possible visitor states after the visit.   *)
(***************************************************************************)
NewVisitor == [called |-> <<>>, types |-> <<>>]

\* Option::None of a receiver type
NoType == <<"None">>

\* path_to_string
path_to_string(path) == join(path)

\* lookup_function_return_type: the possible results
lookup_function_return_type(method_name, fmap) ==
    {IF key = NoFunction THEN NoType ELSE fmap[key].return_type :
        key \in find_function(method_name, fmap)}

\* extract_receiver_type: the possible results
RECURSIVE extract_receiver_type(_, _, _)
extract_receiver_type(receiver, st, fmap) ==
    IF receiver.kind = "Path"
    THEN IF Len(receiver.path) = 0 THEN {NoType}
         ELSE LET variable_name == receiver.path[Len(receiver.path)]
              IN  IF variable_name \in DOMAIN st.types
                  THEN {st.types[variable_name]} ELSE {NoType}
    ELSE IF receiver.kind = "MethodCall"
    THEN UNION {
            LET method_name == receiver.path[1]
                name == IF receiver_type # NoType
                        THEN receiver_type \o <<":", ":">> \o method_name
                        ELSE method_name
            IN  lookup_function_return_type(name, fmap) :
            receiver_type \in extract_receiver_type(receiver.kids[1], st, fmap)}
    ELSE {NoType}

\* extract_variable_name: Some(ident) for Pat::Ident
extract_variable_name(pat) == pat

RECURSIVE visit_expr(_, _, _)
RECURSIVE visit_exprs(_, _, _, _)
RECURSIVE visit_block(_, _, _)
RECURSIVE visit_stmt(_, _, _)
RECURSIVE visit_stmts(_, _, _, _)
RECURSIVE block_stmts(_, _, _, _)
RECURSIVE visit_macro(_, _, _)
RECURSIVE visit_item(_, _, _)

\* self.visit_expr on exprs[i..], in order
visit_exprs(exprs, i, S, fmap) ==
    IF i > Len(exprs) THEN S
    ELSE visit_exprs(exprs, i + 1, visit_expr(exprs[i], S, fmap), fmap)

visit_expr_call(node, S, fmap) ==
    LET func == node.kids[1]
        pushed == IF func.kind = "Path"
                  THEN {[st EXCEPT !.called =
                            Append(@, <<path_to_string(func.path), func.line>>)] : st \in S}
                  ELSE S
    IN  visit_exprs(node.kids, 2, pushed, fmap)

visit_expr_method_call(node, S, fmap) ==
    LET method_name == node.path[1]
        pushed == UNION {
            {[st EXCEPT !.called = Append(@,
                <<IF receiver_type # NoType
                  THEN receiver_type \o <<":", ":">> \o method_name
                  ELSE method_name,
                  node.line>>)] :
                receiver_type \in extract_receiver_type(node.kids[1], st, fmap)} :
            st \in S}
    IN  visit_exprs(node.kids, 1, pushed, fmap)

visit_local(local, S, fmap) ==
    IF Len(local.kids) = 0 \/ Len(extract_variable_name(local.path)) = 0 THEN S
    ELSE UNION {
            {IF var_type = NoType THEN st
             ELSE [st EXCEPT !.types =
                      [v \in DOMAIN st.types \cup {local.path[1]} |->
                          IF v = local.path[1] THEN var_type ELSE st.types[v]]] :
                var_type \in extract_receiver_type(local.kids[1], st, fmap)} :
            st \in S}

\* visit_macro: only a macro whose last path segment is fuzz_target is entered,
\* and only when its body parses as one expression
visit_macro(mac, S, fmap) ==
    IF mac.path[Len(mac.path)] = FuzzTarget /\ Len(mac.kids) = 1
    THEN visit_expr(mac.kids[1], S, fmap)
    ELSE S

\* syn::visit::visit_item, reached from visit_file and from Stmt::Item
visit_item(item, S, fmap) ==
    IF item.kind = "ItemFn" THEN visit_block(item.kids[1], S, fmap)
    ELSE visit_macro(item, S, fmap)

\* syn::visit::visit_stmt, reached from visit_block
visit_stmt(stmt, S, fmap) ==
    CASE stmt.kind = "Local" -> visit_local(stmt, S, fmap)
      [] stmt.kind = "StmtExpr" -> visit_expr(stmt.kids[1], S, fmap)
      [] stmt.kind = "StmtMacro" -> visit_macro(stmt, S, fmap)
      [] OTHER -> visit_item(stmt, S, fmap)

visit_stmts(stmts, i, S, fmap) ==
    IF i > Len(stmts) THEN S
    ELSE visit_stmts(stmts, i + 1, visit_stmt(stmts[i], S, fmap), fmap)

\* syn::visit::visit_block (FuzzTargetVisitor does not override it)
visit_block(block, S, fmap) == visit_stmts(block.kids, 1, S, fmap)

\* the arm Expr::Block of visit_expr, on stmts[i..]
block_stmts(stmts, i, S, fmap) ==
    IF i > Len(stmts) THEN S
    ELSE LET stmt == stmts[i]
             after ==
                CASE stmt.kind = "Local" ->
                        IF Len(stmt.kids) = 1 THEN visit_expr(stmt.kids[1], S, fmap) ELSE S
                  [] stmt.kind = "StmtExpr" -> visit_expr(stmt.kids[1], S, fmap)
                  [] stmt.kind \in {"ItemFn", "ItemMacro"} -> visit_item(stmt, S, fmap)
                  [] OTHER -> S
         IN  block_stmts(stmts, i + 1, after, fmap)

visit_expr(expr, S, fmap) ==
    CASE expr.kind = "Call" -> visit_expr_call(expr, S, fmap)
      [] expr.kind = "MethodCall" -> visit_expr_method_call(expr, S, fmap)
      [] expr.kind = "Block" -> block_stmts(expr.kids, 1, S, fmap)
      [] expr.kind = "If" ->
            LET cond == visit_expr(expr.kids[1], S, fmap)
                then_branch == visit_block(expr.kids[2], cond, fmap)
            IN  IF Len(expr.kids) = 3 THEN visit_expr(expr.kids[3], then_branch, fmap)
                ELSE then_branch
      [] expr.kind \in {"While", "ForLoop"} ->
            visit_block(expr.kids[2], visit_expr(expr.kids[1], S, fmap), fmap)
      [] expr.kind \in {"Match", "Closure", "Operands"} -> visit_exprs(expr.kids, 1, S, fmap)
      [] expr.kind = "Macro" ->
            IF Len(expr.kids) = 1 THEN visit_expr(expr.kids[1], S, fmap) ELSE S
      \* syn::visit::visit_expr
      [] expr.kind = "Loop" -> visit_block(expr.kids[1], S, fmap)
      [] expr.kind = "Reference" -> visit_expr(expr.kids[1], S, fmap)
      [] OTHER -> S

\* visitor.visit_file(&syntax): the items of the file, in order
RECURSIVE visit_items(_, _, _, _)
visit_items(its, i, S, fmap) ==
    IF i > Len(its) THEN S
    ELSE visit_items(its, i + 1, visit_item(its[i], S, fmap), fmap)

visit_file(file, fmap) == visit_items(file, 1, {NewVisitor}, fmap)


(***************************************************************************)
(* Paths, output names and call tree lines                                 *)
(***************************************************************************)
\* the position of the last occurrence of the character c in s, 0 if none
LastIndexOf(s, c) ==
    LET hits == {p \in 1..Len(s) : s[p] = c}
    IN  IF hits = {} THEN 0 ELSE CHOOSE p \in hits : \A q \in hits : q <= p

\* Path::file_name: the final component of the path
file_name(path) == SubSeq(path, LastIndexOf(path, "/") + 1, Len(path))

\* Path::file_stem: the file name before its final '.', the whole file name
\* when it has no '.' or only a leading one
file_stem(path) ==
    LET name == file_name(path)
        dot == LastIndexOf(name, ".")
    IN  IF dot <= 1 THEN name ELSE SubSeq(name, 1, dot - 1)

\* Path::extension: the file name after its final '.', <<>> for None
extension(path) ==
    LET name == file_name(path)
        dot == LastIndexOf(name, ".")
    IN  IF dot <= 1 THEN <<>> ELSE SubSeq(name, dot + 1, Len(name))

\* str::replace(from, to) for single characters; to = "" removes
replace(s, from, to) ==
    LET Sub(c) == IF c = from THEN to ELSE c
    IN  SelectSeq([i \in 1..Len(s) |-> Sub(s[i])], LAMBDA c : c # "")

\* file_stem().unwrap().to_string_lossy().replace('_', "-")
harness_name_of(fuzz_file) == replace(file_stem(fuzz_file), "_", "-")

\* format!("fuzzerLogFile-{}.data", harness_name)
output_file_of(fuzz_file) == <<"fuzzerLogFile-">> \o harness_name_of(fuzz_file) \o <<".data">>

\* callsite.src.split(',')
RECURSIVE split_comma_from(_, _, _)
split_comma_from(s, start, p) ==
    IF p > Len(s) THEN <<SubSeq(s, start, Len(s))>>
    ELSE IF s[p] = ","
         THEN <<SubSeq(s, start, p - 1)>> \o split_comma_from(s, p + 1, p + 1)
         ELSE split_comma_from(s, start, p + 1)

split_comma(s) == split_comma_from(s, 1, 1)

Digits == <<"0", "1", "2", "3", "4", "5", "6", "7", "8", "9">>
IsDigit(c) == \E d \in 1..10 : Digits[d] = c
DigitValue(c) == (CHOOSE d \in 1..10 : Digits[d] = c) - 1

RECURSIVE DecimalValue(_)
DecimalValue(s) ==
    IF Len(s) = 0 THEN 0
    ELSE 10 * DecimalValue(SubSeq(s, 1, Len(s) - 1)) + DigitValue(s[Len(s)])

\* parse::<i32>().unwrap_or(-1): an optional sign and at least one digit;
\* anything else is an Err.  (The digit strings of the model are far too short
\* to leave the range of i32.)
parse_i32_or_minus_one(s) ==
    LET signed == Len(s) > 0 /\ s[1] \in {"+", "-"}
        digits == IF signed THEN Tail(s) ELSE s
        value == IF signed /\ s[1] = "-" THEN 0 - DecimalValue(digits)
                 ELSE DecimalValue(digits)
    IN  IF Len(digits) = 0 \/ \E i \in 1..Len(digits) : ~IsDigit(digits[i]) THEN -1
        ELSE value

\* `if line_number == 0 { line_number = -1; }`
NormalLine(line_number) == IF line_number = 0 THEN -1 ELSE line_number

\* "  ".repeat(depth + 1)
RECURSIVE repeat(_, _)
repeat(s, n) == IF n = 0 THEN <<>> ELSE s \o repeat(s, n - 1)

Indent(depth) == repeat(<<" ", " ">>, depth + 1)

\* One line "{indent}{name} {call_path} linenumber={line_number}\n" of the
\* call tree, with its fields kept apart.  function is not part of the text:
\* it is the key of the FunctionInfo the line was written for, NoFunction
\* for the line of a name that find_function did not resolve.
TreeLine(depth, name, call_path, line_number, function) ==
    [indent |-> Indent(depth),
     name |-> replace(name, " ", ""),
     call_path |-> call_path,
     linenumber |-> NormalLine(line_number),
     function |-> function]


(***************************************************************************)
(* Input domains                                                           *)
(***************************************************************************)
\* the sequences over S of length lo..hi
SeqsOf(S, lo, hi) == UNION {[1..k -> S] : k \in lo..hi}

\* a FunctionInfo with the return type and the callsites (the name is the key)
FunctionInfo(return_type, callsites) == [return_type |-> return_type, callsites |-> callsites]

IdleFind == function_name = <<>> /\ found = NoFunction
IdleObs == items = <<>> /\ processed = <<>>
IdleWalk == syntax = <<>> /\ visitor = NewVisitor
IdleGen ==
    /\ source_dir = {} /\ fuzzing_files = <<>> /\ next_file = 1
    /\ disk = <<>> /\ harness_map = <<>>
    /\ called_functions = <<>> /\ next_call = 1
    /\ visited = {} /\ stack = <<>> /\ expansions = <<>>

(***************************************************************************)
(* SpecFind: find_function on a catalog and a candidate name               *)
(***************************************************************************)
\* names are built from these segments; "gf" ends with "f"
FindSegments == {<<"f">>, <<"g", "f">>}
FindNames(n) == {join(segs) : segs \in SeqsOf(FindSegments, 1, n)}
FindCatalogs ==
    {[key \in keys |-> FunctionInfo(<<>>, <<>>)] :
        keys \in {K \in SUBSET FindNames(MaxSegs - 1) : Cardinality(K) <= MaxKeys}}

InitFind ==
    /\ function_map \in FindCatalogs
    /\ function_name \in FindNames(MaxSegs)
    /\ found = NoFunction
    /\ pc = "find"
    /\ IdleObs /\ IdleWalk /\ IdleGen

FindFunction ==
    /\ pc = "find"
    /\ found' \in find_function(function_name, function_map)
    /\ pc' = "found"
    /\ UNCHANGED <<function_map, function_name, obsVars, walkVars, genVars>>

NextFind == FindFunction

SpecFind == InitFind /\ [][NextFind]_vars

(***************************************************************************)
(* SpecObs: post_process_called_functions on a list of observations, and   *)
(* extract_called_functions on the observations a walk collected           *)
(***************************************************************************)
ObsNames ==
    {<<"f">>, <<"m", ":", ":", "f">>, <<"n", ":", ":", "f">>,
     <<"m", ":", ":", "n", ":", ":", "f">>}
ObsLines == {3, 7}

InitObs ==
    /\ items \in SeqsOf(ObsNames \X ObsLines, 0, MaxItems)
    /\ processed = <<>>
    /\ pc = "obs"
    /\ function_map = <<>>
    /\ IdleFind /\ IdleWalk /\ IdleGen

PostProcess ==
    /\ pc = "obs"
    /\ processed' = post_process_called_functions(items)
    /\ pc' = "post_processed"
    /\ UNCHANGED <<function_map, items, findVars, walkVars, genVars>>

\* extract_called_functions after visitor.visit_file collected `items`
Extract ==
    /\ pc = "obs"
    /\ processed' \in ExtractResults(items)
    /\ pc' = "extracted"
    /\ UNCHANGED <<function_map, items, findVars, walkVars, genVars>>

NextObs == PostProcess \/ Extract

SpecObs == InitObs /\ [][NextObs]_vars

(***************************************************************************)
(* SpecWalk: FuzzTargetVisitor on the fuzz_target! macro of a harness      *)
(***************************************************************************)
\* identifiers of the harnesses: a called function f, methods mk and m,
\* variables x and v, a macro dbg
IdF == <<"f">>
IdMk == <<"m", "k">>
IdM == <<"m">>
IdX == <<"x">>
IdV == <<"v">>
IdDbg == <<"d", "b", "g">>

\* f(),  x.mk(),  v.m(),  f(x.mk()),  &f(),  dbg!(f()),  v  -- on the line
WalkExprs(line) ==
    {CallPath(<<IdF>>, line, <<>>),
     ExprMethodCall(ExprPath(<<IdX>>), IdMk, line, <<>>),
     ExprMethodCall(ExprPath(<<IdV>>), IdM, line, <<>>),
     CallPath(<<IdF>>, line, <<ExprMethodCall(ExprPath(<<IdX>>), IdMk, line, <<>>)>>),
     ExprReference(CallPath(<<IdF>>, line, <<>>)),
     ExprMacro(<<IdDbg>>, <<CallPath(<<IdF>>, line, <<>>)>>),
     ExprPath(<<IdV>>)}

\* let v = e;   e;   dbg!(e);   let v;
WalkStmts(line) ==
    {StmtLocal(<<IdV>>, <<e>>) : e \in WalkExprs(line)}
    \cup {StmtExpr(e) : e \in WalkExprs(line)}
    \cup {StmtMacro(<<IdDbg>>, <<e>>) : e \in WalkExprs(line)}
    \cup {StmtLocal(<<IdV>>, <<>>)}

\* the bodies of k statements: the statement on line i is the i-th statement
RECURSIVE BodiesOfLen(_)
BodiesOfLen(k) ==
    IF k = 0 THEN {<<>>}
    ELSE {Append(body, stmt) : body \in BodiesOfLen(k - 1), stmt \in WalkStmts(k)}

\* the bodies of 1..max_stmts statements
WalkBodies(max_stmts) == UNION {BodiesOfLen(k) : k \in 1..max_stmts}

\* where the body stands in the closure given to fuzz_target!
WalkClosures(body) ==
    LET block == ExprBlock(body)
        In(expr) == ExprClosure(ExprBlock(<<StmtExpr(expr)>>))
    IN  {ExprClosure(block),
         In(block),
         In(ExprIf(ExprLit, block)),
         In(ExprIfElse(ExprLit, ExprBlock(<<>>), block)),
         In(ExprWhile(ExprLit, block)),
         In(ExprForLoop(ExprLit, block)),
         In(ExprLoop(block)),
         In(ExprMatch(ExprLit, <<block>>)),
         ExprClosure(ExprBlock(<<ItemFn(block)>>))}

WalkFiles(max_stmts) ==
    {<<ItemMacro(<<FuzzTarget>>, <<closure>>)>> :
        closure \in UNION {WalkClosures(body) : body \in WalkBodies(max_stmts)}}
    \cup {<<ItemMacro(<<FuzzTarget>>, <<>>)>>}

\* T::mk returns R;  S::mk returns Q
WalkCatalogs ==
    {[key \in keys |-> FunctionInfo(IF key[1] = "T" THEN <<"R">> ELSE <<"Q">>, <<>>)] :
        keys \in SUBSET {<<"T", ":", ":", "m", "k">>, <<"S", ":", ":", "m", "k">>}}

InitWalk ==
    /\ syntax \in WalkFiles(MaxStmts)
    /\ function_map \in WalkCatalogs
    /\ visitor = NewVisitor
    /\ pc = "walk"
    /\ IdleFind /\ IdleObs /\ IdleGen

\* visitor.visit_file(&syntax)
VisitFile ==
    /\ pc = "walk"
    /\ visitor' \in visit_file(syntax, function_map)
    /\ pc' = "walked"
    /\ UNCHANGED <<function_map, syntax, findVars, obsVars, genVars>>

NextWalk == VisitFile

SpecWalk == InitWalk /\ [][NextWalk]_vars


(***************************************************************************)
(* generate_call_trees, with build_call_tree run one call at a time         *)
(***************************************************************************)
\* HashMap::insert
MapPut(map, key, value) ==
    [k \in DOMAIN map \cup {key} |-> IF k = key THEN value ELSE map[k]]

\* the file of source_dir at the path
FileAt(path) == CHOOSE file \in source_dir : file.path = path

\* the directory of a path
DirOf(path) == SubSeq(path, 1, LastIndexOf(path, "/") - 1)

\* find_fuzzing_harnesses: a file is selected when its extension is rs and its
\* text contains "fuzz_target!"
IsHarness(file) == extension(file.path) = <<"r", "s">> /\ file.trigger

\* the orders read_dir can list the harnesses in: any, with the files of one
\* sub-directory together
HarnessOrders ==
    LET found_paths == {file.path : file \in {f \in source_dir : IsHarness(f)}}
        n == Cardinality(found_paths)
    IN  {v \in [1..n -> found_paths] :
            /\ \A i, j \in 1..n : i # j => v[i] # v[j]
            /\ \A i, j, k \in 1..n :
                  i < j /\ j < k /\ DirOf(v[i]) = DirOf(v[k]) => DirOf(v[j]) = DirOf(v[i])}

FindFuzzingHarnesses ==
    /\ pc = "start"
    /\ fuzzing_files' \in HarnessOrders
    /\ next_file' = 1
    /\ pc' = "files"
    /\ UNCHANGED <<function_map, findVars, obsVars, walkVars, source_dir, disk,
                   harness_map, called_functions, next_call, visited, stack, expansions>>

\* a parse error taken for a file without items
ParseErrorIgnored(file) == FALSE

\* syn::parse_file(&content).expect("Failed to parse file") panics
ParsePanics(file) == ~file.parses

\* File::create(&output_file) and the two header lines: the file is created or
\* truncated; its first line is constant, its second names fuzz_file
CreateOutput(files, fuzz_file) ==
    MapPut(files, output_file_of(fuzz_file), [root |-> fuzz_file, lines |-> <<>>])

\* output.write_all(call_tree.as_bytes())
WriteLines(files, fuzz_file, lines) ==
    [files EXCEPT ![output_file_of(fuzz_file)].lines = @ \o lines]

\* The head of the loop over fuzzing_files, up to `let mut visited`.
OpenHarness ==
    /\ pc = "files"
    /\ next_file <= Len(fuzzing_files)
    /\ LET fuzz_file == fuzzing_files[next_file]
           file == FileAt(fuzz_file)
       IN  /\ disk' = CreateOutput(disk, fuzz_file)
           /\ IF ParsePanics(file)
              THEN /\ pc' = "panicked"
                   /\ UNCHANGED <<called_functions, next_call, visited, expansions>>
              ELSE /\ \E st \in visit_file(file.syntax, function_map) :
                          called_functions' \in ExtractResults(st.called)
                   /\ next_call' = 1
                   /\ visited' = {}
                   /\ expansions' = <<>>
                   /\ pc' = "calls"
    /\ UNCHANGED <<function_map, findVars, obsVars, walkVars, source_dir,
                   fuzzing_files, next_file, harness_map, stack>>

\* the visited set never consulted
NeverVisited(seen, key) == FALSE

\* `visited.contains(&function_info.name)`
AlreadyVisited(seen, key) == key \in seen

\* the function not recorded as visited
NotMarked(seen, key) == seen

\* `visited.insert(function_info.name.clone())`
MarkVisited(seen, key) == seen \cup {key}

\* the callee rendered at the depth of its caller
SameDepth(depth) == depth

\* the depth given to the call for a callsite: `depth + 1`
ChildDepth(depth) == depth + 1

\* a call of build_call_tree that found the function and goes on to its callsites
Frame(key, depth, call_path, line_number) ==
    [function |-> key, next |-> 1, depth |-> depth,
     result |-> <<TreeLine(depth, key, call_path, line_number, key)>>]

CountOf(key) == IF key \in DOMAIN expansions THEN expansions[key] ELSE 0

\* build_call_tree called for an observation of the harness (depth 0), up to
\* its return or to its loop over the callsites
BuildCallTree ==
    /\ pc = "calls"
    /\ stack = <<>>
    /\ next_call <= Len(called_functions)
    /\ LET fuzz_file == fuzzing_files[next_file]
           func_name == called_functions[next_call][1]
           line_number == called_functions[next_call][2]
       IN  \E key \in find_function(func_name, function_map) :
              IF key = NoFunction
              THEN /\ disk' = WriteLines(disk, fuzz_file,
                                 <<TreeLine(0, func_name, fuzz_file, line_number, NoFunction)>>)
                   /\ UNCHANGED <<visited, stack, expansions>>
              ELSE IF AlreadyVisited(visited, key)
              THEN UNCHANGED <<disk, visited, stack, expansions>>
              ELSE /\ visited' = MarkVisited(visited, key)
                   /\ stack' = <<Frame(key, 0, fuzz_file, line_number)>>
                   /\ expansions' = MapPut(expansions, key, CountOf(key) + 1)
                   /\ UNCHANGED disk
    /\ next_call' = next_call + 1
    /\ UNCHANGED <<function_map, findVars, obsVars, walkVars, source_dir, fuzzing_files,
                   next_file, harness_map, called_functions, pc>>

\* one turn of `for callsite in &function_info.callsites` in the innermost
\* call, with the call of build_call_tree for the callsite up to its return or
\* to its own loop
Callsite ==
    /\ pc = "calls"
    /\ stack # <<>>
    /\ LET top == stack[Len(stack)]
           callsites == function_map[top.function].callsites
       IN  /\ top.next <= Len(callsites)
           /\ LET callsite == callsites[top.next]
                  call_location == split_comma(callsite.src)
                  turned == [stack EXCEPT ![Len(stack)].next = @ + 1]
              IN  IF Len(call_location) < 2
                  THEN /\ stack' = turned
                       /\ UNCHANGED <<visited, expansions>>
                  ELSE LET callsite_path == call_location[1]
                           callsite_line == parse_i32_or_minus_one(call_location[2])
                           depth == ChildDepth(top.depth)
                       IN  \E key \in find_function(callsite.dst, function_map) :
                              IF key = NoFunction
                              THEN /\ stack' = [turned EXCEPT ![Len(stack)].result =
                                          Append(@, TreeLine(depth, callsite.dst, callsite_path,
                                                             callsite_line, NoFunction))]
                                   /\ UNCHANGED <<visited, expansions>>
                              ELSE IF AlreadyVisited(visited, key)
                              THEN /\ stack' = turned
                                   /\ UNCHANGED <<visited, expansions>>
                              ELSE /\ Len(stack) < MaxStack
                                   /\ visited' = MarkVisited(visited, key)
                                   /\ stack' = Append(turned,
                                          Frame(key, depth, callsite_path, callsite_line))
                                   /\ expansions' = MapPut(expansions, key, CountOf(key) + 1)
    /\ UNCHANGED <<function_map, findVars, obsVars, walkVars, source_dir, fuzzing_files,
                   next_file, disk, harness_map, called_functions, next_call, pc>>

\* the innermost call is through its callsites and returns Some(result): the
\* caller appends it to its own result, generate_call_trees writes it out
Return ==
    /\ pc = "calls"
    /\ stack # <<>>
    /\ LET top == stack[Len(stack)]
           rest == SubSeq(stack, 1, Len(stack) - 1)
       IN  /\ top.next > Len(function_map[top.function].callsites)
           /\ IF rest = <<>>
              THEN /\ disk' = WriteLines(disk, fuzzing_files[next_file], top.result)
                   /\ stack' = <<>>
              ELSE /\ stack' = [rest EXCEPT ![Len(rest)].result = @ \o top.result]
                   /\ UNCHANGED disk
    /\ UNCHANGED <<function_map, findVars, obsVars, walkVars, source_dir, fuzzing_files,
                   next_file, harness_map, called_functions, next_call, visited,
                   expansions, pc>>

\* the FunctionInfo synthesized for the harness: its name and called_functions
HarnessInfo(called) ==
    [name |-> FuzzTarget, called_functions |-> [i \in 1..Len(called) |-> called[i][1]]]

\* the end of the loop body: harness_map.insert(fuzz_file.clone(), function_info)
CloseHarness ==
    /\ pc = "calls"
    /\ stack = <<>>
    /\ next_call > Len(called_functions)
    /\ harness_map' = MapPut(harness_map, fuzzing_files[next_file],
                             HarnessInfo(called_functions))
    /\ next_file' = next_file + 1
    /\ pc' = "files"
    /\ UNCHANGED <<function_map, findVars, obsVars, walkVars, source_dir, fuzzing_files,
                   disk, called_functions, next_call, visited, stack, expansions>>

\* Ok(harness_map)
ReturnMap ==
    /\ pc = "files"
    /\ next_file > Len(fuzzing_files)
    /\ pc' = "done"
    /\ UNCHANGED <<function_map, findVars, obsVars, walkVars, genVars>>

NextGen ==
    \/ FindFuzzingHarnesses
    \/ OpenHarness
    \/ BuildCallTree
    \/ Callsite
    \/ Return
    \/ CloseHarness
    \/ ReturnMap

(***************************************************************************)
(* SpecTree: one harness, over catalogs with cycles, shared callees,       *)
(* names that differ only in spaces and names resolved by suffix or by     *)
(* stripping segments                                                      *)
(***************************************************************************)
\* the catalog names: f, "f " and m::f
TreeKeys == <<(<<"f">>), (<<"f", " ">>), (<<"m", ":", ":", "f">>)>>
KeyIndex(key) == CHOOSE i \in 1..Len(TreeKeys) : TreeKeys[i] = key

CallSite(src, dst) == [src |-> src, dst |-> dst]

\* call edges: "p,5" to each name; a src without a line; a src with line 0
TreeEdges ==
    {CallSite(<<"p", ",", "5">>, TreeKeys[i]) : i \in 1..Len(TreeKeys)}
    \cup {CallSite(<<"p">>, TreeKeys[1]), CallSite(<<"q", ",", "0">>, TreeKeys[2])}

\* the callsites of each name, -1 for a name that is not in the catalog, with
\* at most MaxEdges call edges in the whole catalog
TreeShapes ==
    {shape \in [1..Len(TreeKeys) -> -1..MaxEdges] :
        LET Edges(i) == IF shape[i] < 0 THEN 0 ELSE shape[i]
        IN  Edges(1) + Edges(2) + Edges(3) <= MaxEdges}

CallSiteLists(n) == IF n < 0 THEN {<<>>} ELSE [1..n -> TreeEdges]

TreeCatalogs ==
    UNION {{[key \in {TreeKeys[i] : i \in {j \in 1..Len(TreeKeys) : shape[j] >= 0}} |->
                FunctionInfo(<<>>, lists[KeyIndex(key)])] :
              lists \in CallSiteLists(shape[1]) \X CallSiteLists(shape[2])
                        \X CallSiteLists(shape[3])} :
           shape \in TreeShapes}

\* the paths a harness calls: f, m::f and u (never in the catalog)
TreeCallPaths == {<<IdF>>, <<IdM, IdF>>, <<(<<"u">>)>>}

\* fuzz_target!(|data| { <path>(); ... }) with the i-th call on line i
HarnessCalling(paths) ==
    <<ItemMacro(<<FuzzTarget>>,
        <<ExprClosure(ExprBlock([i \in 1..Len(paths) |->
            StmtExpr(CallPath(paths[i], i, <<>>))]))>>)>>

SourceFile(path, trigger, parses, file) ==
    [path |-> path, trigger |-> trigger, parses |-> parses, syntax |-> file]

TreePath == <<"z", "/", "t", "_", "x", ".", "r", "s">>

StartGen ==
    /\ fuzzing_files = <<>> /\ next_file = 1
    /\ disk = <<>> /\ harness_map = <<>>
    /\ called_functions = <<>> /\ next_call = 1
    /\ visited = {} /\ stack = <<>> /\ expansions = <<>>
    /\ pc = "start"

InitTree ==
    /\ function_map \in TreeCatalogs
    /\ \E paths \in SeqsOf(TreeCallPaths, 0, MaxCalls) :
          source_dir = {SourceFile(TreePath, TRUE, TRUE, HarnessCalling(paths))}
    /\ StartGen
    /\ IdleFind /\ IdleObs /\ IdleWalk

SpecTree == InitTree /\ [][NextGen]_vars

\* every call of build_call_tree and every step of generate_call_trees runs on
\* once it can: the program is sequential and nothing waits
FairSpecTree == SpecTree /\ WF_vars(NextGen)

(***************************************************************************)
(* SpecGen: several files under source_dir, with equal names in two        *)
(* directories, names that differ in '_' and '-', files that do not parse  *)
(* and macro arguments that are no expression                              *)
(***************************************************************************)
GenPaths ==
    {<<"a", "/", "t", "_", "x", ".", "r", "s">>,
     <<"b", "/", "t", "_", "x", ".", "r", "s">>,
     <<"a", "/", "t", "-", "x", ".", "r", "s">>,
     <<"a", "/", "u", ".", "r", "s">>,
     <<"a", "/", "u", ".", "m", "d">>}

\* what a file holds: whether its text contains "fuzz_target!", and either a
\* file that parses and calls f() on line 1, or one that parses but whose
\* macro argument is no expression, or one that does not parse
GenContents ==
    {[trigger |-> trigger, parses |-> TRUE, syntax |-> HarnessCalling(<<(<<IdF>>)>>)] :
        trigger \in BOOLEAN}
    \cup {[trigger |-> trigger, parses |-> TRUE, syntax |-> <<ItemMacro(<<FuzzTarget>>, <<>>)>>] :
        trigger \in BOOLEAN}
    \cup {[trigger |-> trigger, parses |-> FALSE, syntax |-> <<>>] : trigger \in BOOLEAN}

\* the directories: 1..MaxFiles files at different paths
GenDirs ==
    UNION {{{SourceFile(path, holds[path].trigger, holds[path].parses, holds[path].syntax) :
                path \in paths} :
              holds \in [paths -> GenContents]} :
           paths \in {P \in SUBSET GenPaths : Cardinality(P) \in 1..MaxFiles}}

\* f calls u, which is not in the catalog
GenCatalog ==
    [key \in {IdF} |-> FunctionInfo(<<>>, <<CallSite(<<"p", ",", "5">>, <<"u">>)>>)]

InitGen ==
    /\ function_map = GenCatalog
    /\ source_dir \in GenDirs
    /\ StartGen
    /\ IdleFind /\ IdleObs /\ IdleWalk

SpecGen == InitGen /\ [][NextGen]_vars

(***************************************************************************)
(* Claims about find_function (SpecFind)                                   *)
(***************************************************************************)
\* the candidate with its first i segments removed
StrippedName(name, i) == join(SubSeq(split(name), i + 1, Len(split(name))))

\* how many leading segments can be removed to get a catalog key
StripCounts(name, fmap) ==
    {i \in 0..(Len(split(name)) - 1) : StrippedName(name, i) \in DOMAIN fmap}

\* C3: find_function returns the candidate's own record when the candidate is a
\* key; otherwise the record of a key that ends with the candidate, when there
\* is one; otherwise the record of the longest "::"-segment suffix of the
\* candidate that is a key; and None exactly when none of the three applies.
C3_ResolutionOrder ==
    pc = "found" =>
        LET keys == DOMAIN function_map
            ending == {key \in keys : ends_with(key, function_name)}
            strips == StripCounts(function_name, function_map)
            fewest == CHOOSE i \in strips : \A j \in strips : i <= j
        IN  /\ function_name \in keys => found = function_name
            /\ function_name \notin keys /\ ending # {} => found \in ending
            /\ function_name \notin keys /\ ending = {} /\ strips # {}
                  => found = StrippedName(function_name, fewest)
            /\ found = NoFunction
                  <=> (function_name \notin keys /\ ending = {} /\ strips = {})

\* C3 witness: a candidate that is no key, that no key ends with, and that has
\* two segment suffixes in the catalog, was resolved.
C3_Witness ==
    /\ pc = "found"
    /\ function_name \notin DOMAIN function_map
    /\ SuffixMatches(function_name, function_map) = {}
    /\ Cardinality(StripCounts(function_name, function_map)) >= 2
    /\ found # NoFunction

(***************************************************************************)
(* Claims about the observation list (SpecObs)                             *)
(***************************************************************************)
HasSeparator(name) == \E p \in 1..Len(name) : ColonsAt(name, p)

\* the qualifier of a name that contains "::": what stands before its last "::"
QualifierOf(name) ==
    LET prefixes == {n \in 0..Len(name) : ColonsAt(name, n + 1)}
    IN  SubSeq(name, 1, CHOOSE n \in prefixes : \A k \in prefixes : k <= n)

\* C4: post_process_called_functions keeps the number, the order and the line
\* numbers of the observations; a name that contains "::" is unchanged; a name
\* without "::" becomes <qualifier>::<name> with the qualifier of the most
\* recent earlier name that contains "::", and is unchanged when no earlier
\* name contains "::".
C4_BackFill ==
    pc = "post_processed" =>
        /\ Len(processed) = Len(items)
        /\ \A i \in 1..Len(items) :
              LET name == items[i][1]
                  earlier == {j \in 1..(i - 1) : HasSeparator(items[j][1])}
                  last == CHOOSE j \in earlier : \A k \in earlier : k <= j
              IN  /\ processed[i][2] = items[i][2]
                  /\ processed[i][1] =
                        IF HasSeparator(name) \/ earlier = {} THEN name
                        ELSE QualifierOf(items[last][1]) \o <<":", ":">> \o name

\* C4 witness: one list in which an unqualified name stayed as it was (it comes
\* before every qualified name) and a later unqualified name was rewritten
\* after two different qualifiers had been seen.
C4_Witness ==
    /\ pc = "post_processed"
    /\ \E i, j, k, l \in 1..Len(items) :
          /\ i < j /\ j < l /\ k < l
          /\ ~HasSeparator(items[i][1]) /\ processed[i] = items[i]
          /\ HasSeparator(items[j][1]) /\ HasSeparator(items[k][1])
          /\ QualifierOf(items[j][1]) # QualifierOf(items[k][1])
          /\ ~HasSeparator(items[l][1]) /\ processed[l] # items[l]

\* C5: the list extract_called_functions returns holds no (name, line) pair
\* twice and its line numbers ascend.
C5_NoDuplicateAscending ==
    pc = "extracted" =>
        /\ \A i, j \in 1..Len(processed) : i # j => processed[i] # processed[j]
        /\ \A i, j \in 1..Len(processed) : i < j => processed[i][2] <= processed[j][2]

(***************************************************************************)
(* Claims about the walk (SpecWalk)                                        *)
(***************************************************************************)
\* the nodes of a tree
RECURSIVE NodesOf(_)
NodesOf(node) == {node} \cup UNION {NodesOf(node.kids[i]) : i \in 1..Len(node.kids)}

\* the argument of the fuzz_target! macro of the file, when it is an expression
MacroNodes == IF Len(syntax[1].kids) = 1 THEN NodesOf(syntax[1].kids[1]) ELSE {}

\* the observations recorded by the walk
Recorded == {visitor.called[i] : i \in 1..Len(visitor.called)}

\* C10: every direct call on a path and every method call inside the macro's
\* argument is recorded: an observation on its line names it.
C10_EveryCallRecorded ==
    pc = "walked" =>
        \A node \in MacroNodes :
            /\ node.kind = "Call" /\ node.kids[1].kind = "Path"
                  => <<path_to_string(node.kids[1].path), node.kids[1].line>> \in Recorded
            /\ node.kind = "MethodCall"
                  => \E obs \in Recorded :
                        obs[2] = node.line /\ ends_with(obs[1], node.path[1])

\* C9: in any block, after `let v = x.mk()` whose initializer's type is found
\* in the catalog (x itself is never bound), a later statement `v.m()` of the
\* block, with no other `let v` in between, is recorded as <Type>::m and not
\* as m.
C9_LocalBindsReceiver ==
    pc = "walked" =>
        \A block \in {n \in MacroNodes : n.kind = "Block"} :
            \A i, j \in 1..Len(block.kids) :
                LET decl == block.kids[i]
                    use == block.kids[j]
                    types == lookup_function_return_type(decl.kids[1].path[1], function_map)
                IN  (/\ i < j
                     /\ decl.kind = "Local" /\ decl.path = <<IdV>> /\ Len(decl.kids) = 1
                     /\ decl.kids[1].kind = "MethodCall"
                     /\ decl.kids[1].kids[1] = ExprPath(<<IdX>>)
                     /\ NoType \notin types
                     /\ \A k \in (i + 1)..(j - 1) : block.kids[k].kind # "Local"
                     /\ use.kind = "StmtExpr" /\ use.kids[1].kind = "MethodCall"
                     /\ use.kids[1].kids[1] = ExprPath(<<IdV>>))
                    => /\ \E type \in types :
                            <<type \o <<":", ":">> \o use.kids[1].path[1], use.kids[1].line>>
                                \in Recorded
                       /\ <<use.kids[1].path[1], use.kids[1].line>> \notin Recorded


(***************************************************************************)
(* Claims about the call tree (SpecTree, FairSpecTree)                     *)
(***************************************************************************)
\* the callsites of a catalog function that build_call_tree follows (their src
\* has a path and a line)
FollowedCallsites(key) ==
    LET callsites == function_map[key].callsites
    IN  {callsites[i] : i \in {j \in 1..Len(callsites) :
                                  Len(split_comma(callsites[j].src)) >= 2}}

\* key has a followed callsite whose destination resolves to callee only
Calls(key, callee) ==
    \E callsite \in FollowedCallsites(key) :
        find_function(callsite.dst, function_map) = {callee}

\* the lines written so far to the output file
LinesOf(out) == disk[out].lines

\* C1 as stated: no line of a resolved catalog function shows a name that
\* another line of the same output file shows too.
C1_NameOnOneLine ==
    \A out \in DOMAIN disk :
        \A i, j \in 1..Len(LinesOf(out)) :
            i # j /\ LinesOf(out)[i].function # NoFunction
                => LinesOf(out)[i].name # LinesOf(out)[j].name

\* C1 as amended: no catalog function has more than one line in an output file.
C1_FunctionOnOneLine ==
    \A out \in DOMAIN disk :
        \A i, j \in 1..Len(LinesOf(out)) :
            i # j /\ LinesOf(out)[i].function # NoFunction
                => LinesOf(out)[i].function # LinesOf(out)[j].function

\* C1 witness: two top-level observations resolved to two functions that both
\* call a third one, and the run is over.
C1_Witness ==
    /\ pc = "done"
    /\ \E a, b \in 1..Len(called_functions) : \E g, h, k \in visited :
          /\ a < b /\ g # h /\ g # k /\ h # k
          /\ find_function(called_functions[a][1], function_map) = {g}
          /\ find_function(called_functions[b][1], function_map) = {h}
          /\ Calls(g, k) /\ Calls(h, k)

Finished == pc \in {"done", "panicked"}

\* C2: build_call_tree terminates on every catalog, cyclic ones included: the
\* callsites of a catalog function are entered at most once for a harness, only
\* catalog functions are entered, the nesting of calls never exceeds the
\* number of catalog functions, and the run of generate_call_trees ends.
C2_Terminates ==
    /\ [](/\ \A key \in DOMAIN expansions :
                key \in DOMAIN function_map /\ expansions[key] <= 1
          /\ \A i \in 1..Len(stack) : stack[i].function \in DOMAIN function_map
          /\ Len(stack) <= Cardinality(DOMAIN function_map))
    /\ <>Finished

\* C2 witness: the run is over on a catalog in which two rendered functions
\* call each other.
C2_Witness ==
    /\ pc = "done"
    /\ \E g, h \in visited : g # h /\ Calls(g, h) /\ Calls(h, g)

\* the number of levels a line is indented by
LevelOf(line) == Len(line.indent) \div 2

\* C8: every line is indented by two spaces per level; a line of level 1 is
\* for an observation of the harness; a line of level d > 1 follows the line
\* of a function at level d - 1 with a callsite for it, with only lines of
\* level >= d in between; and once a top-level call has returned, every
\* function marked visited has its line, also when its callees were pruned.
C8_Indentation ==
    /\ \A out \in DOMAIN disk :
          \A i \in 1..Len(LinesOf(out)) :
              LET line == LinesOf(out)[i]
                  above == {j \in 1..(i - 1) : LevelOf(LinesOf(out)[j]) < LevelOf(line)}
                  parent == LinesOf(out)[CHOOSE j \in above : \A k \in above : k <= j]
              IN  /\ Len(line.indent) = 2 * LevelOf(line)
                  /\ \A c \in 1..Len(line.indent) : line.indent[c] = " "
                  /\ LevelOf(line) >= 1
                  /\ LevelOf(line) = 1 =>
                        \E c \in 1..Len(called_functions) :
                            /\ line.function \in find_function(called_functions[c][1], function_map)
                            /\ line.linenumber = called_functions[c][2]
                            /\ line.call_path = disk[out].root
                  /\ LevelOf(line) > 1 =>
                        /\ above # {}
                        /\ LevelOf(parent) = LevelOf(line) - 1
                        /\ parent.function # NoFunction
                        /\ \E callsite \in FollowedCallsites(parent.function) :
                              /\ line.function \in find_function(callsite.dst, function_map)
                              /\ line.call_path = split_comma(callsite.src)[1]
    /\ (pc = "calls" /\ stack = <<>>) =>
          \A key \in visited :
              \E i \in 1..Len(LinesOf(output_file_of(fuzzing_files[next_file]))) :
                  LinesOf(output_file_of(fuzzing_files[next_file]))[i].function = key

\* C8 witness: a function rendered at level 2 whose only followed callsites
\* lead to functions rendered before it: its line is there, without children.
C8_Witness ==
    /\ pc = "done"
    /\ \E out \in DOMAIN disk : \E i \in 1..Len(LinesOf(out)) :
          LET line == LinesOf(out)[i]
          IN  /\ LevelOf(line) = 2
              /\ line.function # NoFunction
              /\ FollowedCallsites(line.function) # {}
              /\ \A callsite \in FollowedCallsites(line.function) :
                    \E j \in 1..(i - 1) :
                        find_function(callsite.dst, function_map) = {LinesOf(out)[j].function}
              /\ i < Len(LinesOf(out)) => LevelOf(LinesOf(out)[i + 1]) <= 2

(***************************************************************************)
(* Claims about the run over the harness files (SpecGen)                   *)
(***************************************************************************)
\* the argument of the file's fuzz_target! macro is one expression
MacroArgumentParses(file) == Len(file.syntax) = 1 /\ Len(file.syntax[1].kids) = 1

\* the harnesses whose loop body has been entered
Entered == {fuzzing_files[i] : i \in 1..Len(fuzzing_files)} \cap
           {disk[out].root : out \in DOMAIN disk}

C7_OwnOutputFile ==
    pc = "done" =>
        /\ \A i \in 1..Len(fuzzing_files) :
              /\ output_file_of(fuzzing_files[i]) \in DOMAIN disk
              /\ disk[output_file_of(fuzzing_files[i])].root = fuzzing_files[i]
        /\ DOMAIN harness_map = {fuzzing_files[i] : i \in 1..Len(fuzzing_files)}

=============================================================================
